---- MODULE Spec2Model ----
(***************************************************************************)
(* Hash-locked envelopes: the Soroban contract of src/src/lib.rs as a      *)
(* state machine.  One action per entry point (initialize,                 *)
(* create_envelope, claim, revoke_envelope, refund_owner, get_envelope)    *)
(* plus the ledger clock.  A panic aborts the call: the host rolls the     *)
(* storage back, so a failing call changes nothing but the observed        *)
(* outcome.                                                                *)
(*                                                                         *)
(* Integer widths are scaled down, keeping their structure: u64/i64 have   *)
(* U64Bits bits, u32 has U32Bits bits, i128 has I128Bits bits.  The basis  *)
(* point denominator 10000 is the program's.                               *)
(***************************************************************************)
EXTENDS Integers, Sequences, FiniteSets, TLC

\* ------------------------------------------------------------------ widths
U64Bits == 2
U32Bits == 14
I128Bits == 25

U64Max == 2^U64Bits - 1
I64Max == 2^(U64Bits - 1) - 1
U32Max == 2^U32Bits - 1
I128Mod == 2^I128Bits
I128Max == 2^(I128Bits - 1) - 1

\* `10_000` / `10_000i128`: the basis points of the whole amount.
BP_DENOM == 10000

\* Option<T>: None is the empty sequence, Some(x) the one-element sequence.
None == << >>
Some(x) == << x >>
IsSome(o) == o # << >>
Unwrap(o) == o[1]

\* ------------------------------------------------------------------ inputs
Addresses == {"alice", "bob"}
Hashes == {"h1", "h2"}

\* An i128 amount whose product with 10000 wraps to a positive i128.
LargeAmount == (I128Mod \div BP_DENOM) + 500

VestSlice(t, b) == [ts |-> t, bp |-> b]

\* Vec<VestSlice> schedules: half at time 1; slices summing above 10000 bp
\* and above the largest u32.
HalfAtOne == << VestSlice(1, 5000) >>
OverFull == << VestSlice(0, 5000), VestSlice(1, U32Max), VestSlice(1, U32Max) >>

\* What the clients ask for in one run.  "terms": one envelope id, every
\* combination of amount, unlock time, schedule and expiry (a rejected
\* amount, an everyday one, a wrapping one, the largest i128; times absent,
\* early, and in the upper half of the u64 range).  "parties": one id, every
\* combination of beneficiary and secret hash.  "pair": two ids.
Workloads == {"terms", "parties", "pair"}
Inputs(w) ==
    CASE w = "terms" ->
           [ids |-> {"id1"},
            beneficiaries |-> {"bob"},
            hashes |-> {"h1"},
            amounts |-> {0, 1000, LargeAmount, I128Max},
            unlocks |-> {None, Some(1), Some(I64Max + 1)},
            vestings |-> {<< >>, HalfAtOne, OverFull},
            expiries |-> {None, Some(1), Some(I64Max + 1)}]
      [] w = "parties" ->
           [ids |-> {"id1"},
            beneficiaries |-> Addresses,
            hashes |-> Hashes,
            amounts |-> {-1, 1000},
            unlocks |-> {None},
            vestings |-> {HalfAtOne},
            expiries |-> {Some(1)}]
      [] w = "pair" ->
           [ids |-> {"id1", "id2"},
            beneficiaries |-> {"bob"},
            hashes |-> {"h1"},
            amounts |-> {1000},
            unlocks |-> {None},
            vestings |-> {<< >>, HalfAtOne},
            expiries |-> {Some(1)}]
Ids == {"id1", "id2"}

\* initialize(owner, guardians, recovery_threshold, recovery_delay) inputs.
InitializeInputs ==
    { [owner |-> "alice", guardians |-> << "bob" >>,
       recovery_threshold |-> 1, recovery_delay |-> 0],
      [owner |-> "bob", guardians |-> << >>,
       recovery_threshold |-> 0, recovery_delay |-> 1] }

\* ------------------------------------------------------------------- state
VARIABLES
    owner,            \* instance storage KEY_OWNER: None until initialize
    config,           \* KEY_GUARDIANS, KEY_RECOVERY_THRESHOLD, KEY_RECOVERY_DELAY
    envelopes,        \* instance storage KEY_ENVELOPES: id -> Envelope
    ledger_time,      \* env.ledger().timestamp(), a u64
    overflow_checks,  \* the build's overflow-checks setting
    workload,         \* what the clients of this run ask for
    last,             \* the last call and its outcome, as its caller sees it
    paid,             \* per id: sum of the values claim has returned
    refunded          \* per id: sum of the values refund_owner has returned

vars == << owner, config, envelopes, ledger_time, overflow_checks, workload,
           last, paid, refunded >>

\* ----------------------------------------------------------- pure helpers
\* `x as i64` of a u64: two's complement reinterpretation.
as_i64(t) == IF t > I64Max THEN t - 2^U64Bits ELSE t

\* u32::saturating_add
saturating_add(a, b) == IF a + b > U32Max THEN U32Max ELSE a + b

\* Mutant of sum_slices: every slice counts, whatever its ts.
RECURSIVE sum_slices_all(_, _, _)
sum_slices_all(vesting, now_ts, acc) ==
    IF vesting = << >> THEN acc
    ELSE sum_slices_all(Tail(vesting), now_ts, saturating_add(acc, Head(vesting).bp))

\* The loop of claim: the saturating sum of bp over the slices with
\* ts <= now_ts, in the order of the vector.
RECURSIVE sum_slices(_, _, _)
sum_slices(vesting, now_ts, acc) ==
    IF vesting = << >> THEN acc
    ELSE LET vs == Head(vesting)
         IN  sum_slices(Tail(vesting), now_ts,
                        IF vs.ts <= now_ts THEN saturating_add(acc, vs.bp) ELSE acc)

\* Mutant of clamp_bp: the clamp is missing.
clamp_bp_missing(s) == s

\* `if sum_bp > 10_000 { sum_bp = 10_000; }`
clamp_bp(s) == IF s > BP_DENOM THEN BP_DENOM ELSE s

\* sum_bp as claim leaves it before the multiplication.
sum_bp(vesting, now_ts) ==
    IF vesting = << >> THEN BP_DENOM
    ELSE clamp_bp(sum_slices(vesting, now_ts, 0))

\* (a * b) mod 2^I128Bits for a, b >= 0, by doubling, so that no
\* intermediate value leaves the 32-bit integers of the model checker.
RECURSIVE mul_mod(_, _)
mul_mod(a, b) ==
    IF b = 0 THEN 0
    ELSE (2 * mul_mod(a, b \div 2) + (b % 2) * a) % I128Mod

\* The i128 a value of 0 .. 2^I128Bits - 1 stands for (two's complement).
to_i128(x) == IF x > I128Max THEN x - I128Mod ELSE x

\* i128 `*` of a positive amount and a u32 widened to i128: the product, or
\* an overflow.  With overflow-checks the overflow panics; without, the
\* product wraps.
mul_overflows(a, b) == b > 0 /\ a > I128Max \div b
i128_mul(a, b, checks) ==
    IF mul_overflows(a, b)
    THEN IF checks THEN [panic |-> TRUE, value |-> 0]
         ELSE [panic |-> FALSE, value |-> to_i128(mul_mod(a, b))]
    ELSE [panic |-> FALSE, value |-> a * b]

\* i128 `/`: truncates toward zero.
i128_div(x, d) == IF x >= 0 THEN x \div d ELSE -((-x) \div d)

\* `(env_rec.amount * sum_bp as i128) / 10_000i128`
vested_amount(amount, bp, checks) ==
    LET prod == i128_mul(amount, bp, checks)
    IN  IF prod.panic THEN prod
        ELSE [panic |-> FALSE, value |-> i128_div(prod.value, BP_DENOM)]

\* ------------------------------------------------------------ entry points
\* What a call's caller observes: a panic (the call is rolled back) or a
\* return.  Panics carry the name the error taxonomy gives them:
\*   "already initialized" AlreadyInitialized, require_auth Unauthorized,
\*   "amount must be > 0" InvalidAmount, "envelope id exists"
\*   DuplicateEnvelope, "envelope not found" NotFound, "envelope revoked"
\*   Revoked, "invalid secret" InvalidSecret, "locked until unlock_ts"
\*   Locked, "already revoked" AlreadyRevoked, "already fully claimed"
\*   FullyClaimed, "no expiry set" NoExpirySet, "not yet expired"
\*   NotYetExpired, "owner not set" OwnerNotSet, arithmetic overflow
\*   Overflow.
Call(op, caller, id) ==
    [op |-> op, caller |-> caller, id |-> id, secret |-> "", amount |-> 0,
     args |-> None, envelope |-> None, result |-> "Ok", ret |-> 0]

\* Address::require_auth: the call carries the authority of `addr`.
require_auth(caller, addr) == caller = addr

\* Contract::envelopes_map(..).get(id)
has_envelope(id) == id \in DOMAIN envelopes

\* Mutant of claim_checks: the revoked flag is not looked at.
claim_checks_no_revoked(env_rec, caller, provided_secret_hash, now) ==
    IF ~require_auth(caller, env_rec.beneficiary) THEN "Unauthorized"
    ELSE IF provided_secret_hash # env_rec.secret_hash THEN "InvalidSecret"
    ELSE IF IsSome(env_rec.unlock_ts) /\ as_i64(now) < Unwrap(env_rec.unlock_ts)
         THEN "Locked"
    ELSE "Ok"

\* Mutant of claim_checks: authorization comes before the revoked flag.
claim_checks_auth_first(env_rec, caller, provided_secret_hash, now) ==
    IF ~require_auth(caller, env_rec.beneficiary) THEN "Unauthorized"
    ELSE IF env_rec.revoked THEN "Revoked"
    ELSE IF provided_secret_hash # env_rec.secret_hash THEN "InvalidSecret"
    ELSE IF IsSome(env_rec.unlock_ts) /\ as_i64(now) < Unwrap(env_rec.unlock_ts)
         THEN "Locked"
    ELSE "Ok"

\* Mutant of claim_checks: the secret is not compared.
claim_checks_no_secret(env_rec, caller, provided_secret_hash, now) ==
    IF env_rec.revoked THEN "Revoked"
    ELSE IF ~require_auth(caller, env_rec.beneficiary) THEN "Unauthorized"
    ELSE IF IsSome(env_rec.unlock_ts) /\ as_i64(now) < Unwrap(env_rec.unlock_ts)
         THEN "Locked"
    ELSE "Ok"

\* The checks of claim on a found record, in the order of the code: the name
\* of the first that panics, or "Ok".
claim_checks(env_rec, caller, provided_secret_hash, now) ==
    IF env_rec.revoked THEN "Revoked"
    ELSE IF ~require_auth(caller, env_rec.beneficiary) THEN "Unauthorized"
    ELSE IF provided_secret_hash # env_rec.secret_hash THEN "InvalidSecret"
    ELSE IF IsSome(env_rec.unlock_ts) /\ as_i64(now) < Unwrap(env_rec.unlock_ts)
         THEN "Locked"
    ELSE "Ok"

\* Mutant of claim_delta: the whole vested amount is returned.
claim_delta_whole(vested, claimed) == vested

\* `let delta = vested_amount - env_rec.claimed;`
claim_delta(vested, claimed) == vested - claimed

\* Mutant of claim_body: what was claimed before is not taken off, the
\* vested amount is paid at every call.
claim_body_pays_again(env_rec, caller, provided_secret_hash, now, checks) ==
    LET chk == claim_checks(env_rec, caller, provided_secret_hash, now)
        now_ts == as_i64(now)
        v == vested_amount(env_rec.amount, sum_bp(env_rec.vesting, now_ts), checks)
    IN  IF chk # "Ok" THEN [result |-> chk, ret |-> 0, rec |-> env_rec]
        ELSE IF v.panic THEN [result |-> "Overflow", ret |-> 0, rec |-> env_rec]
        ELSE IF v.value <= 0
             THEN [result |-> "Ok", ret |-> 0, rec |-> env_rec]
        ELSE [result |-> "Ok", ret |-> v.value,
              rec |-> [env_rec EXCEPT !.claimed = v.value]]

\* claim, from the record on: [result, ret, rec] with rec the record the
\* call leaves in the map.
claim_body(env_rec, caller, provided_secret_hash, now, checks) ==
    LET chk == claim_checks(env_rec, caller, provided_secret_hash, now)
        now_ts == as_i64(now)
        v == vested_amount(env_rec.amount, sum_bp(env_rec.vesting, now_ts), checks)
    IN  IF chk # "Ok" THEN [result |-> chk, ret |-> 0, rec |-> env_rec]
        ELSE IF v.panic THEN [result |-> "Overflow", ret |-> 0, rec |-> env_rec]
        ELSE IF v.value <= env_rec.claimed
             THEN [result |-> "Ok", ret |-> 0, rec |-> env_rec]
        ELSE [result |-> "Ok",
              ret |-> claim_delta(v.value, env_rec.claimed),
              rec |-> [env_rec EXCEPT !.claimed = v.value]]

\* Mutant of revoke_checks: a fully claimed envelope can be revoked.
revoke_checks_no_full(env_rec) ==
    IF env_rec.revoked THEN "AlreadyRevoked" ELSE "Ok"

\* The checks of revoke_envelope on a found record.
revoke_checks(env_rec) ==
    IF env_rec.revoked THEN "AlreadyRevoked"
    ELSE IF env_rec.claimed >= env_rec.amount THEN "FullyClaimed"
    ELSE "Ok"

\* The checks of refund_owner on a found record.
refund_checks(env_rec, now) ==
    IF ~IsSome(env_rec.expiry_ts) THEN "NoExpirySet"
    ELSE IF as_i64(now) < Unwrap(env_rec.expiry_ts) THEN "NotYetExpired"
    ELSE IF env_rec.revoked THEN "AlreadyRevoked"
    ELSE "Ok"

\* Mutant of refund_body: the whole amount is returned.
refund_body_whole(env_rec, now) ==
    LET chk == refund_checks(env_rec, now)
        unclaimed == env_rec.amount - env_rec.claimed
    IN  IF chk # "Ok" THEN [result |-> chk, ret |-> 0, rec |-> env_rec]
        ELSE IF unclaimed <= 0 THEN [result |-> "Ok", ret |-> 0, rec |-> env_rec]
        ELSE [result |-> "Ok", ret |-> env_rec.amount,
              rec |-> [env_rec EXCEPT !.revoked = TRUE, !.claimed = env_rec.amount]]

\* refund_owner, from the record on.
refund_body(env_rec, now) ==
    LET chk == refund_checks(env_rec, now)
        unclaimed == env_rec.amount - env_rec.claimed
    IN  IF chk # "Ok" THEN [result |-> chk, ret |-> 0, rec |-> env_rec]
        ELSE IF unclaimed <= 0 THEN [result |-> "Ok", ret |-> 0, rec |-> env_rec]
        ELSE [result |-> "Ok", ret |-> unclaimed,
              rec |-> [env_rec EXCEPT !.revoked = TRUE, !.claimed = env_rec.amount]]

\* Mutant of owner_gate: the owner's authority is not required.
owner_gate_no_auth(caller) ==
    IF ~IsSome(owner) THEN "OwnerNotSet" ELSE "Ok"

\* The owner gate shared by create_envelope, revoke_envelope and
\* refund_owner: owner_address(..) then owner.require_auth().
owner_gate(caller) ==
    IF ~IsSome(owner) THEN "OwnerNotSet"
    ELSE IF ~require_auth(caller, Unwrap(owner)) THEN "Unauthorized"
    ELSE "Ok"

\* Mutant of create_checks: an id in use is not rejected.
create_checks_no_duplicate(envelope_id, amount) ==
    IF amount <= 0 THEN "InvalidAmount" ELSE "Ok"

\* The validation of create_envelope after the owner gate.
create_checks(envelope_id, amount) ==
    IF amount <= 0 THEN "InvalidAmount"
    ELSE IF has_envelope(envelope_id) THEN "DuplicateEnvelope"
    ELSE "Ok"

\* `unlock_ts.map(|ts| ts as i64)`
map_as_i64(o) == IF IsSome(o) THEN Some(as_i64(Unwrap(o))) ELSE None

\* The Envelope create_envelope stores.
new_envelope(beneficiary, amount, secret_hash, unlock_ts, vesting, expiry_ts) ==
    [beneficiary |-> beneficiary,
     amount |-> amount,
     secret_hash |-> secret_hash,
     unlock_ts |-> map_as_i64(unlock_ts),
     vesting |-> vesting,
     claimed |-> 0,
     expiry_ts |-> map_as_i64(expiry_ts),
     revoked |-> FALSE]

\* Mutant of map_set: the other keys are dropped.
map_set_alone(m, k, v) == [x \in {k} |-> v]

\* Map::set
map_set(m, k, v) == [x \in DOMAIN m \cup {k} |-> IF x = k THEN v ELSE m[x]]

\* ----------------------------------------------------------------- actions
NoPayments == [i \in Ids |-> 0]

Init ==
    /\ owner = None
    /\ config = None
    /\ envelopes = << >>
    /\ ledger_time = 0
    /\ overflow_checks \in BOOLEAN
    /\ workload \in Workloads
    /\ last = Call("deploy", "", "")
    /\ paid = NoPayments
    /\ refunded = NoPayments

\* The ledger closes: the timestamp moves on.
Tick ==
    /\ ledger_time < U64Max
    /\ ledger_time' = ledger_time + 1
    /\ last' = Call("tick", "", "")
    /\ UNCHANGED << owner, config, envelopes, overflow_checks, workload, paid, refunded >>

\* Mutant of initialize: the stored owner is not looked at.
initialize_overwrites(new_owner, guardians, recovery_threshold, recovery_delay) ==
    /\ owner' = Some(new_owner)
    /\ config' = Some([guardians |-> guardians,
                       recovery_threshold |-> recovery_threshold,
                       recovery_delay |-> recovery_delay])
    /\ envelopes' = << >>
    /\ last' = Call("initialize", "", "")
    /\ UNCHANGED << ledger_time, overflow_checks, workload, paid, refunded >>

initialize(new_owner, guardians, recovery_threshold, recovery_delay) ==
    /\ IF IsSome(owner)
       THEN /\ last' = [Call("initialize", "", "") EXCEPT !.result = "AlreadyInitialized"]
            /\ UNCHANGED << owner, config, envelopes >>
       ELSE /\ owner' = Some(new_owner)
            /\ config' = Some([guardians |-> guardians,
                               recovery_threshold |-> recovery_threshold,
                               recovery_delay |-> recovery_delay])
            /\ envelopes' = << >>
            /\ last' = Call("initialize", "", "")
    /\ UNCHANGED << ledger_time, overflow_checks, workload, paid, refunded >>

create_envelope(caller, envelope_id, amount) ==
    LET gate == owner_gate(caller)
        chk == IF gate # "Ok" THEN gate ELSE create_checks(envelope_id, amount)
        call == [Call("create_envelope", caller, envelope_id) EXCEPT !.amount = amount]
    IN  /\ IF chk # "Ok"
           THEN /\ last' = [call EXCEPT !.result = chk]
                /\ UNCHANGED envelopes
           ELSE \E beneficiary \in Inputs(workload).beneficiaries,
                   secret_hash \in Inputs(workload).hashes,
                   unlock_ts \in Inputs(workload).unlocks,
                   vesting \in Inputs(workload).vestings,
                   expiry_ts \in Inputs(workload).expiries :
                    /\ envelopes' = map_set(envelopes, envelope_id,
                                            new_envelope(beneficiary, amount, secret_hash,
                                                         unlock_ts, vesting, expiry_ts))
                    /\ last' = [call EXCEPT !.args =
                                   Some([beneficiary |-> beneficiary,
                                         amount |-> amount,
                                         secret_hash |-> secret_hash,
                                         unlock_ts |-> unlock_ts,
                                         vesting |-> vesting,
                                         expiry_ts |-> expiry_ts])]
        /\ UNCHANGED << owner, config, ledger_time, overflow_checks, workload, paid, refunded >>

claim(caller, envelope_id, provided_secret_hash) ==
    LET call == [Call("claim", caller, envelope_id) EXCEPT !.secret = provided_secret_hash]
    IN  /\ IF ~has_envelope(envelope_id)
           THEN /\ last' = [call EXCEPT !.result = "NotFound"]
                /\ UNCHANGED << envelopes, paid >>
           ELSE LET out == claim_body(envelopes[envelope_id], caller,
                                      provided_secret_hash, ledger_time, overflow_checks)
                IN  /\ envelopes' = map_set(envelopes, envelope_id, out.rec)
                    /\ paid' = [paid EXCEPT ![envelope_id] = @ + out.ret]
                    /\ last' = [call EXCEPT !.result = out.result, !.ret = out.ret]
        /\ UNCHANGED << owner, config, ledger_time, overflow_checks, workload, refunded >>

revoke_envelope(caller, envelope_id) ==
    LET gate == owner_gate(caller)
        chk == IF gate # "Ok" THEN gate
               ELSE IF ~has_envelope(envelope_id) THEN "NotFound"
               ELSE revoke_checks(envelopes[envelope_id])
        call == Call("revoke_envelope", caller, envelope_id)
    IN  /\ IF chk # "Ok"
           THEN /\ last' = [call EXCEPT !.result = chk]
                /\ UNCHANGED envelopes
           ELSE /\ envelopes' = map_set(envelopes, envelope_id,
                                        [envelopes[envelope_id] EXCEPT !.revoked = TRUE])
                /\ last' = call
        /\ UNCHANGED << owner, config, ledger_time, overflow_checks, workload, paid, refunded >>

refund_owner(caller, envelope_id) ==
    LET gate == owner_gate(caller)
        call == Call("refund_owner", caller, envelope_id)
    IN  /\ IF gate # "Ok" \/ ~has_envelope(envelope_id)
           THEN /\ last' = [call EXCEPT !.result =
                               IF gate # "Ok" THEN gate ELSE "NotFound"]
                /\ UNCHANGED << envelopes, refunded >>
           ELSE LET out == refund_body(envelopes[envelope_id], ledger_time)
                IN  /\ envelopes' = map_set(envelopes, envelope_id, out.rec)
                    /\ refunded' = [refunded EXCEPT ![envelope_id] = @ + out.ret]
                    /\ last' = [call EXCEPT !.result = out.result, !.ret = out.ret]
        /\ UNCHANGED << owner, config, ledger_time, overflow_checks, workload, paid >>

get_envelope(envelope_id) ==
    LET call == Call("get_envelope", "", envelope_id)
    IN  /\ last' = IF has_envelope(envelope_id)
                   THEN [call EXCEPT !.envelope = Some(envelopes[envelope_id])]
                   ELSE [call EXCEPT !.result = "NotFound"]
        /\ UNCHANGED << owner, config, envelopes, ledger_time, overflow_checks,
                        workload, paid, refunded >>

Next ==
    \/ Tick
    \/ \E i \in InitializeInputs :
          initialize(i.owner, i.guardians, i.recovery_threshold, i.recovery_delay)
    \/ \E c \in Addresses, i \in Inputs(workload).ids, a \in Inputs(workload).amounts :
          create_envelope(c, i, a)
    \/ \E c \in Addresses, i \in Inputs(workload).ids, h \in Hashes : claim(c, i, h)
    \/ \E c \in Addresses, i \in Inputs(workload).ids : revoke_envelope(c, i)
    \/ \E c \in Addresses, i \in Inputs(workload).ids : refund_owner(c, i)
    \/ \E i \in Inputs(workload).ids : get_envelope(i)

Spec == Init /\ [][Next]_vars

\* ------------------------------------------------------------------ claims
\* The u64 a stored i64 timestamp was created from (create_envelope's cast
\* is one-to-one).
as_u64(x) == IF x < 0 THEN x + 2^U64Bits ELSE x

\* min(10000, sum of bp over the slices with ts <= now): the fraction as the
\* specification states it, with the plain integer sum and the u64 time.
RECURSIVE PlainSum(_, _)
PlainSum(vesting, now) ==
    IF vesting = << >> THEN 0
    ELSE (IF Head(vesting).ts <= now THEN Head(vesting).bp ELSE 0)
         + PlainSum(Tail(vesting), now)
StatedFraction(vesting, now) ==
    IF vesting = << >> THEN BP_DENOM
    ELSE IF PlainSum(vesting, now) > BP_DENOM THEN BP_DENOM
    ELSE PlainSum(vesting, now)

\* floor(amount * fraction / 10000) for amount > 0 and 0 <= fraction <= 10000,
\* computed without forming the product.
ExactVested(amount, fraction) ==
    (amount \div BP_DENOM) * fraction + ((amount % BP_DENOM) * fraction) \div BP_DENOM

Failures ==
    {"AlreadyInitialized", "Unauthorized", "InvalidAmount", "DuplicateEnvelope",
     "NotFound", "Revoked", "InvalidSecret", "Locked", "AlreadyRevoked",
     "FullyClaimed", "NoExpirySet", "NotYetExpired", "OwnerNotSet", "Overflow"}

\* C1: in every reachable state every envelope of the registry has
\* amount > 0 and 0 <= claimed <= amount, whatever its schedule sums to.
C1_ClaimedWithinAmount ==
    \A i \in DOMAIN envelopes :
        /\ envelopes[i].amount > 0
        /\ 0 <= envelopes[i].claimed
        /\ envelopes[i].claimed <= envelopes[i].amount

\* C1 witness: a claim has just paid an envelope whose slices sum above
\* 10000 bp up to its whole amount.
C1_Witness ==
    /\ last.op = "claim" /\ last.result = "Ok" /\ last.ret > 0
    /\ envelopes[last.id].vesting = OverFull
    /\ envelopes[last.id].claimed = envelopes[last.id].amount

\* C2: once an envelope is revoked it stays revoked and its claimed value
\* stays as it is; a later claim on it fails with Revoked, a later
\* revoke_envelope fails (AlreadyRevoked for the owner, who alone gets past
\* the owner gate), a later refund_owner fails without paying.
C2_RevokedIsTerminal ==
    [][\A i \in DOMAIN envelopes :
          envelopes[i].revoked =>
            /\ i \in DOMAIN envelopes'
            /\ envelopes'[i].revoked
            /\ envelopes'[i].claimed = envelopes[i].claimed
            /\ (last'.op = "claim" /\ last'.id = i) => last'.result = "Revoked"
            /\ (last'.op = "revoke_envelope" /\ last'.id = i) =>
                  /\ last'.result \in {"AlreadyRevoked", "Unauthorized"}
                  /\ require_auth(last'.caller, Unwrap(owner)) =>
                        last'.result = "AlreadyRevoked"
            /\ (last'.op = "refund_owner" /\ last'.id = i) =>
                  /\ last'.result \in Failures
                  /\ last'.ret = 0
                  /\ refunded' = refunded]_vars

\* C2 witness: a claim with the beneficiary's authority and the right secret
\* has just been refused on a revoked envelope.
C2_Witness ==
    /\ last.op = "claim" /\ last.result = "Revoked"
    /\ envelopes[last.id].revoked
    /\ last.caller = envelopes[last.id].beneficiary
    /\ last.secret = envelopes[last.id].secret_hash

\* C3 as stated: for every envelope the sum of the values claim has returned
\* on it equals its claimed value, which never exceeds amount.
C3_ClaimsSumToClaimed ==
    \A i \in DOMAIN envelopes :
        /\ paid[i] = envelopes[i].claimed
        /\ envelopes[i].claimed <= envelopes[i].amount

\* C3 amended: the sum of the values claim has returned on an envelope equals
\* its claimed value as long as no refund_owner has paid on it; once one has,
\* claimed = amount = that sum plus the refund.  claimed never exceeds amount.
C3_ClaimsAndRefundSumToClaimed ==
    \A i \in DOMAIN envelopes :
        /\ envelopes[i].claimed <= envelopes[i].amount
        /\ IF refunded[i] = 0
           THEN paid[i] = envelopes[i].claimed
           ELSE /\ paid[i] + refunded[i] = envelopes[i].claimed
                /\ envelopes[i].claimed = envelopes[i].amount

\* C3 witness: a refund has just closed an envelope that two claims had paid
\* out of before.
C3_Witness ==
    /\ last.op = "refund_owner" /\ last.result = "Ok" /\ last.ret > 0
    /\ paid[last.id] > 0
    /\ envelopes[last.id].vesting = OverFull
    /\ paid[last.id] + last.ret = envelopes[last.id].amount

\* A claim whose earlier checks pass: the envelope exists and is not revoked,
\* the caller is its beneficiary and the secret is the stored one.
PassesToTimeLock(call) ==
    /\ call.op = "claim"
    /\ call.id \in DOMAIN envelopes
    /\ ~envelopes[call.id].revoked
    /\ call.caller = envelopes[call.id].beneficiary
    /\ call.secret = envelopes[call.id].secret_hash

\* C4 as stated: with T the u64 unlock time an envelope was created with, a
\* claim at a time < T fails (with Locked once the earlier checks pass) and
\* leaves the envelope as it is, and a claim at a time >= T is not rejected
\* as Locked.
C4_TimeLock ==
    [][(last'.op = "claim" /\ last'.id \in DOMAIN envelopes
          /\ IsSome(envelopes[last'.id].unlock_ts)) =>
         LET T == as_u64(Unwrap(envelopes[last'.id].unlock_ts))
         IN  /\ ledger_time < T =>
                   /\ last'.result \in Failures
                   /\ PassesToTimeLock(last') => last'.result = "Locked"
                   /\ envelopes' = envelopes
             /\ ledger_time >= T => last'.result # "Locked"]_vars

\* The result claim's checks lead to when they are applied in the given
\* order (each check a name), the time lock read as the code reads it.
FirstFailure(env_rec, call, now, order) ==
    LET fails(c) ==
            CASE c = "Unauthorized" -> call.caller # env_rec.beneficiary
              [] c = "Revoked" -> env_rec.revoked
              [] c = "InvalidSecret" -> call.secret # env_rec.secret_hash
              [] c = "Locked" -> /\ IsSome(env_rec.unlock_ts)
                                 /\ as_i64(now) < Unwrap(env_rec.unlock_ts)
        failing == {k \in 1..Len(order) : fails(order[k])}
    IN  IF failing = {} THEN "Ok"
        ELSE order[CHOOSE k \in failing : \A j \in failing : k <= j]

ClaimReports(order) ==
    last'.op = "claim" =>
        IF last'.id \notin DOMAIN envelopes THEN last'.result = "NotFound"
        ELSE LET exp == FirstFailure(envelopes[last'.id], last', ledger_time, order)
             IN  IF exp = "Ok" THEN last'.result \in {"Ok", "Overflow"}
                 ELSE last'.result = exp /\ envelopes' = envelopes

\* C5 as stated: claim reports the first failure in the order lookup,
\* authorization, revoked, secret, time lock.
C5_CheckOrderAsStated ==
    [][ClaimReports(<< "Unauthorized", "Revoked", "InvalidSecret", "Locked" >>)]_vars

\* C5 amended: claim reports the first failure in the order lookup, revoked,
\* authorization, secret, time lock; a caller who is not the beneficiary gets
\* Revoked on a revoked envelope and Unauthorized on every other one.
C5_CheckOrder ==
    [][ClaimReports(<< "Revoked", "Unauthorized", "InvalidSecret", "Locked" >>)]_vars

\* C5 witness: a caller who is not the beneficiary has just been refused on a
\* revoked envelope, with Revoked.
C5_Witness ==
    /\ last.op = "claim" /\ last.result = "Revoked"
    /\ last.caller # envelopes[last.id].beneficiary

\* C6: claim raises an envelope's claimed value, or returns a value (0
\* included), only with the authority of its beneficiary and the stored
\* secret_hash as the provided value; with any other value it fails - with
\* InvalidSecret once the revoked and authorization checks pass - and leaves
\* the registry as it is.
C6_SecretAndBeneficiaryGate ==
    [][(last'.op = "claim" /\ last'.id \in DOMAIN envelopes) =>
         LET env_rec == envelopes[last'.id]
         IN  /\ (last'.result = "Ok"
                   \/ envelopes'[last'.id].claimed > env_rec.claimed) =>
                   /\ last'.caller = env_rec.beneficiary
                   /\ last'.secret = env_rec.secret_hash
             /\ last'.secret # env_rec.secret_hash =>
                   /\ last'.result \in {"Revoked", "Unauthorized", "InvalidSecret"}
                   /\ (~env_rec.revoked /\ last'.caller = env_rec.beneficiary) =>
                         last'.result = "InvalidSecret"
                   /\ envelopes' = envelopes
                   /\ paid' = paid]_vars

\* C6 witness: the beneficiary has just claimed with a value that is not the
\* stored secret_hash, on an envelope that would have paid.
C6_Witness ==
    /\ last.op = "claim" /\ last.result = "InvalidSecret"
    /\ last.caller = envelopes[last.id].beneficiary
    /\ envelopes[last.id].vesting = << >>
    /\ envelopes[last.id].claimed = 0

OwnerOps == {"create_envelope", "revoke_envelope", "refund_owner"}

\* C7: create_envelope, revoke_envelope and refund_owner change the registry
\* or return only with the authority of the owner initialize stored; any other
\* caller gets Unauthorized, whatever lookup or validation would say, and the
\* storage stays as it is.
C7_OwnerOnly ==
    [][last'.op \in OwnerOps =>
         /\ (last'.result = "Ok" \/ envelopes' # envelopes) =>
               /\ IsSome(owner)
               /\ last'.caller = Unwrap(owner)
         /\ (IsSome(owner) /\ last'.caller # Unwrap(owner)) =>
               /\ last'.result = "Unauthorized"
               /\ envelopes' = envelopes
               /\ owner' = owner /\ config' = config
               /\ refunded' = refunded]_vars

\* C7 witness: a caller who is not the owner has just been refused with
\* Unauthorized on a revoke_envelope of an id that is not in the registry.
C7_Witness ==
    /\ last.op = "revoke_envelope" /\ last.result = "Unauthorized"
    /\ IsSome(owner) /\ last.caller # Unwrap(owner)
    /\ last.id \notin DOMAIN envelopes

\* C8 as stated: when all of claim's checks pass at time now, with
\* fraction = 10000 for an empty schedule, else min(10000, sum of bp over the
\* slices with ts <= now), and vested = floor(amount * fraction / 10000): if
\* vested > claimed the call returns vested - claimed and leaves
\* claimed = vested, every other field unchanged.
C8_PayingClaim ==
    [][(PassesToTimeLock(last')
          /\ ~(IsSome(envelopes[last'.id].unlock_ts)
                 /\ as_i64(ledger_time) < Unwrap(envelopes[last'.id].unlock_ts))) =>
         LET env_rec == envelopes[last'.id]
             vested == ExactVested(env_rec.amount,
                                   StatedFraction(env_rec.vesting, ledger_time))
         IN  vested > env_rec.claimed =>
               /\ last'.result = "Ok"
               /\ last'.ret = vested - env_rec.claimed
               /\ envelopes' = [envelopes EXCEPT ![last'.id].claimed = vested]]_vars

\* C9 as stated: whenever claim reaches the vesting computation, for the
\* amount of the envelope and the fraction it has computed, vested_amount is
\* floor(amount * fraction / 10000) and the call is not aborted by the
\* product.
C9_ExactArithmetic ==
    (last.op = "claim" /\ last.result \in {"Ok", "Overflow"}) =>
        LET env_rec == envelopes[last.id]
            fraction == sum_bp(env_rec.vesting, as_i64(ledger_time))
            v == vested_amount(env_rec.amount, fraction, overflow_checks)
        IN  /\ last.result = "Ok"
            /\ ~v.panic
            /\ v.value = ExactVested(env_rec.amount, fraction)

\* C10 as stated: for the schedule of every envelope and any two times
\* now1 <= now2 the clock has returned, the fraction claim computes at now1
\* is at most the one it computes at now2, and both lie in 0 .. 10000.
C10_FractionMonotone ==
    \A i \in DOMAIN envelopes :
        \A now1 \in 0..ledger_time, now2 \in 0..ledger_time :
            now1 <= now2 =>
                LET f1 == sum_bp(envelopes[i].vesting, as_i64(now1))
                    f2 == sum_bp(envelopes[i].vesting, as_i64(now2))
                IN  /\ f1 <= f2
                    /\ f1 \in 0..BP_DENOM
                    /\ f2 \in 0..BP_DENOM

\* A claim that passes every check of claim, the time lock as the code
\* reads it.
PassesChecks(call) ==
    /\ PassesToTimeLock(call)
    /\ ~(IsSome(envelopes[call.id].unlock_ts)
           /\ as_i64(ledger_time) < Unwrap(envelopes[call.id].unlock_ts))

\* C11: a claim that passes its checks while the vested amount
\* floor(amount * fraction / 10000) is <= claimed succeeds, returns 0 and
\* leaves the storage as it is; a claim right after a successful claim on the
\* same envelope (no tick between them) returns 0 with claimed unchanged; a
\* claim made before any slice has vested returns 0, not an error.
C11_IdempotentClaim ==
    [][PassesChecks(last') =>
         LET env_rec == envelopes[last'.id]
             vested == ExactVested(env_rec.amount,
                                   StatedFraction(env_rec.vesting, ledger_time))
             noop == /\ last'.result = "Ok"
                     /\ last'.ret = 0
                     /\ envelopes' = envelopes
                     /\ paid' = paid
                     /\ owner' = owner /\ config' = config
         IN  /\ vested <= env_rec.claimed => noop
             /\ (last.op = "claim" /\ last.result = "Ok" /\ last.id = last'.id) => noop
             /\ (env_rec.vesting # << >> /\ PlainSum(env_rec.vesting, ledger_time) = 0)
                   => noop]_vars

\* C11 witness: a second claim right after a paying one has just returned 0.
C11_Witness ==
    /\ last.op = "claim" /\ last.result = "Ok" /\ last.ret = 0
    /\ paid[last.id] > 0
    /\ envelopes[last.id].claimed = paid[last.id]
    /\ envelopes[last.id].claimed < envelopes[last.id].amount

\* The record a get_envelope right after a create_envelope is to return: the
\* supplied values, the two times changed by `conv`, claimed 0, not revoked.
RoundTrip(conv(_)) ==
    (last.op = "create_envelope" /\ last.result = "Ok"
       /\ last'.op = "get_envelope" /\ last'.id = last.id) =>
        LET a == Unwrap(last.args)
        IN  /\ last'.result = "Ok"
            /\ last'.envelope =
                 Some([beneficiary |-> a.beneficiary,
                       amount |-> a.amount,
                       secret_hash |-> a.secret_hash,
                       unlock_ts |-> conv(a.unlock_ts),
                       vesting |-> a.vesting,
                       claimed |-> 0,
                       expiry_ts |-> conv(a.expiry_ts),
                       revoked |-> FALSE])
            /\ UNCHANGED << owner, config, envelopes, ledger_time, paid, refunded >>

Verbatim(o) == o

\* C12 as stated: for every input create_envelope accepts, a get_envelope of
\* the same id right after returns the supplied beneficiary, amount,
\* secret_hash, unlock_ts, vesting and expiry_ts, with claimed = 0 and
\* revoked = false, and changes no state.
C12_RoundTrip == [][RoundTrip(Verbatim)]_vars

\* A call that carries the authority of the stored owner.
ByOwner(call) == IsSome(owner) /\ call.caller = Unwrap(owner)

\* C13: create_envelope by the owner fails with InvalidAmount when
\* amount <= 0 and, the amount being positive, with DuplicateEnvelope when the
\* id is in the registry; both leave the registry as it is, and no
\* create_envelope changes an envelope that exists.
C13_CreateRejects ==
    [][(last'.op = "create_envelope" /\ ByOwner(last')) =>
         /\ last'.amount <= 0 =>
               last'.result = "InvalidAmount" /\ envelopes' = envelopes
         /\ (last'.amount > 0 /\ last'.id \in DOMAIN envelopes) =>
               last'.result = "DuplicateEnvelope" /\ envelopes' = envelopes
         /\ \A i \in DOMAIN envelopes :
               i \in DOMAIN envelopes' /\ envelopes'[i] = envelopes[i]]_vars

\* C13 witness: the owner's create_envelope on the id of an envelope that has
\* paid and is revoked has just failed with DuplicateEnvelope.
C13_Witness ==
    /\ last.op = "create_envelope" /\ last.result = "DuplicateEnvelope"
    /\ envelopes[last.id].claimed > 0
    /\ envelopes[last.id].revoked

\* C14: revoke_envelope by the owner on an existing envelope succeeds exactly
\* when it is not revoked and claimed < amount, and then sets revoked and
\* nothing else; otherwise it fails with AlreadyRevoked (revoked) or
\* FullyClaimed (claimed >= amount) and changes nothing.
C14_Revoke ==
    [][(last'.op = "revoke_envelope" /\ ByOwner(last')
          /\ last'.id \in DOMAIN envelopes) =>
         LET env_rec == envelopes[last'.id]
         IN  /\ IF ~env_rec.revoked /\ env_rec.claimed < env_rec.amount
                THEN /\ last'.result = "Ok"
                     /\ envelopes' = [envelopes EXCEPT ![last'.id].revoked = TRUE]
                ELSE /\ last'.result = IF env_rec.revoked THEN "AlreadyRevoked"
                                       ELSE "FullyClaimed"
                     /\ envelopes' = envelopes
             /\ UNCHANGED << owner, config, paid, refunded >>]_vars

\* C14 witness: the owner's revoke_envelope has just failed with FullyClaimed
\* on an envelope that is not revoked.
C14_Witness ==
    /\ last.op = "revoke_envelope" /\ last.result = "FullyClaimed"
    /\ ~envelopes[last.id].revoked
    /\ envelopes[last.id].claimed = envelopes[last.id].amount

\* The owner's refund_owner on an existing envelope: what it must do when
\* `due` says that the expiry has passed, and what when it has not.
RefundResult(due(_, _)) ==
    (last'.op = "refund_owner" /\ ByOwner(last')
       /\ last'.id \in DOMAIN envelopes) =>
      LET env_rec == envelopes[last'.id]
          unclaimed == env_rec.amount - env_rec.claimed
      IN  (~env_rec.revoked /\ IsSome(env_rec.expiry_ts)
             /\ due(env_rec, ledger_time)) =>
            /\ last'.result = "Ok"
            /\ last'.ret = unclaimed
            /\ IF unclaimed > 0
               THEN envelopes' = [envelopes EXCEPT
                                    ![last'.id].claimed = env_rec.amount,
                                    ![last'.id].revoked = TRUE]
               ELSE envelopes' = envelopes
RefundRejects(due(_, _)) ==
    (last'.op = "refund_owner" /\ ByOwner(last')
       /\ last'.id \in DOMAIN envelopes) =>
      LET env_rec == envelopes[last'.id]
          stated == IF ~IsSome(env_rec.expiry_ts) THEN "NoExpirySet"
                    ELSE IF ~due(env_rec, ledger_time) THEN "NotYetExpired"
                    ELSE IF env_rec.revoked THEN "AlreadyRevoked"
                    ELSE "Ok"
      IN  stated # "Ok" =>
            /\ last'.result = stated
            /\ last'.ret = 0
            /\ UNCHANGED << owner, config, envelopes, paid, refunded >>

\* now >= expiry_ts, on the u64 time and the expiry_ts given to
\* create_envelope.
Expired(env_rec, now) == now >= as_u64(Unwrap(env_rec.expiry_ts))

\* now >= expiry_ts as the code evaluates it.
ExpiredAsCast(env_rec, now) == as_i64(now) >= Unwrap(env_rec.expiry_ts)

\* C15 as stated: the owner's refund_owner on an existing, non-revoked
\* envelope with now >= expiry_ts returns amount - claimed; if that is > 0
\* the envelope ends with claimed = amount and revoked = true, if it is 0
\* nothing changes.  Violated: a ledger time of 2^63 or more is read as
\* negative and the call fails with NotYetExpired.
C15_RefundResult == [][RefundResult(Expired)]_vars

\* C16 as stated: on an existing envelope refund_owner fails with NoExpirySet
\* without an expiry, else with NotYetExpired when now < expiry_ts, else with
\* AlreadyRevoked when revoked, and each failure changes nothing.  Violated:
\* an expiry_ts of 2^63 or more is stored negative and the refund is paid
\* before it.
C16_RefundRejects == [][RefundRejects(Expired)]_vars

\* C17: initialize succeeds only while no owner is stored; once one is stored
\* every initialize fails with AlreadyInitialized and changes nothing, so the
\* owner, guardians, recovery threshold and recovery delay never change again
\* and the envelopes survive a repeated initialize.
C17_InitializeOnce ==
    [][/\ IsSome(owner) => owner' = owner /\ config' = config
       /\ (last'.op = "initialize" /\ IsSome(owner)) =>
             /\ last'.result = "AlreadyInitialized"
             /\ UNCHANGED << envelopes, paid, refunded >>
       /\ (last'.op = "initialize" /\ last'.result = "Ok") =>
             ~IsSome(owner) /\ IsSome(owner') /\ IsSome(config')]_vars

\* C17 witness: an initialize has just failed with AlreadyInitialized on a
\* registry that holds an envelope.
C17_Witness ==
    /\ last.op = "initialize" /\ last.result = "AlreadyInitialized"
    /\ IsSome(owner) /\ IsSome(config)
    /\ DOMAIN envelopes # {}

\* The fields of an envelope that are fixed at creation.
Terms(env_rec) ==
    << env_rec.beneficiary, env_rec.amount, env_rec.secret_hash,
       env_rec.unlock_ts, env_rec.vesting, env_rec.expiry_ts >>

\* C18: an envelope id in the registry stays in it over every step, with the
\* same beneficiary, amount, secret_hash, unlock_ts, vesting and expiry_ts;
\* and a claim, revoke_envelope or refund_owner on one id adds no id, leaves
\* every other envelope as it is and leaves the owner configuration as it is.
C18_Persistence ==
    [][/\ \A i \in DOMAIN envelopes :
             /\ i \in DOMAIN envelopes'
             /\ Terms(envelopes'[i]) = Terms(envelopes[i])
       /\ last'.op \in {"claim", "revoke_envelope", "refund_owner"} =>
             /\ DOMAIN envelopes' = DOMAIN envelopes
             /\ \A i \in DOMAIN envelopes \ {last'.id} :
                   envelopes'[i] = envelopes[i]
             /\ owner' = owner /\ config' = config]_vars

\* C18 witness: a claim has just paid from one envelope while another
\* envelope, revoked, is in the registry.
C18_Witness ==
    /\ last.op = "claim" /\ last.result = "Ok" /\ last.ret > 0
    /\ \E i \in DOMAIN envelopes : i # last.id /\ envelopes[i].revoked

\* C19: for every envelope the amounts returned by claim plus the amounts
\* returned by refund_owner sum to at most amount, and to exactly amount once
\* a refund_owner has returned a non-zero value; and no call returns anything
\* from an envelope that is revoked.
C19_NoDoublePayout ==
    [][/\ \A i \in DOMAIN envelopes' :
             /\ paid'[i] >= 0 /\ refunded'[i] >= 0
             /\ paid'[i] + refunded'[i] <= envelopes'[i].amount
             /\ refunded'[i] > 0 =>
                   paid'[i] + refunded'[i] = envelopes'[i].amount
       /\ \A i \in DOMAIN envelopes :
             envelopes[i].revoked =>
                /\ paid'[i] = paid[i] /\ refunded'[i] = refunded[i]
                /\ last'.id = i => last'.ret = 0]_vars

\* C19 witness: a refund_owner has just returned the remainder of an envelope
\* that had paid part of its amount to claims.
C19_Witness ==
    /\ last.op = "refund_owner" /\ last.result = "Ok" /\ last.ret > 0
    /\ paid[last.id] > 0
    /\ refunded[last.id] = last.ret
    /\ paid[last.id] + refunded[last.id] = envelopes[last.id].amount

\* C19 witness of the forfeited remainder: calls on a revoked envelope with a
\* remainder have returned nothing.
C19_ForfeitWitness ==
    /\ last.op \in {"claim", "refund_owner"} /\ last.id \in DOMAIN envelopes
    /\ envelopes[last.id].revoked /\ refunded[last.id] = 0
    /\ paid[last.id] < envelopes[last.id].amount

\* The bp of all slices of a schedule, whatever the time.
TotalBp(vesting) == PlainSum(vesting, U64Max)

\* C20: every envelope that no refund_owner has closed has
\* claimed <= floor(amount * f / 10000), f the vested fraction of its
\* schedule at the current ledger time; and if its slices sum to less than
\* 10000 bp its claimed stays below amount.
C20_NeverAheadOfVesting ==
    \A i \in DOMAIN envelopes :
       refunded[i] = 0 =>
          LET env_rec == envelopes[i]
          IN  /\ env_rec.claimed <=
                    ExactVested(env_rec.amount,
                                StatedFraction(env_rec.vesting, ledger_time))
              /\ (env_rec.vesting # << >> /\ TotalBp(env_rec.vesting) < BP_DENOM) =>
                    env_rec.claimed < env_rec.amount

\* C20 witness: an envelope whose slices sum to less than 10000 bp has paid
\* exactly its vested part, and the clock has moved on since.
C20_Witness ==
    \E i \in DOMAIN envelopes :
       LET env_rec == envelopes[i]
       IN  /\ refunded[i] = 0
           /\ env_rec.vesting # << >> /\ TotalBp(env_rec.vesting) < BP_DENOM
           /\ env_rec.claimed > 0
           /\ env_rec.claimed =
                 ExactVested(env_rec.amount,
                             StatedFraction(env_rec.vesting, ledger_time))
           /\ ledger_time > 1

====
